---- MODULE Spec2Model ----
(***************************************************************************)
(* A model of quickstart.py: the time normalizer, the block splitter, the  *)
(* parser of the delegated-extraction reply, the event builder and the     *)
(* main loop that drives them.  Python strings are TLA+ strings; s[i:j] is *)
(* SubSeq(s, i+1, j).                                                      *)
(***************************************************************************)
EXTENDS Integers, Sequences, FiniteSets, TLC

VARIABLES
    pc,             \* position of the single thread of control
    time_str,       \* normalize_time_format: its argument
    normalized,     \* normalize_time_format: its return value
    event_details,  \* main: the line read from standard input, stripped
    event_blocks,   \* main: the blocks the input is split into
    i,              \* main: index of the block the for loop is at (1-based)
    result,         \* parse_event_details_with_openai: the reply text
    parsed_details, \* the mapping the extractor returned / create_event got
    built,          \* create_event: outcome and event record of the last call
    extractCalls,   \* block indices the extractor was called on, in order
    insertCalls,    \* gateway insert calls: block index and event body, in order
    stdin,          \* the line standard input holds when main prompts for it
    creds           \* main: how the credentials were obtained

vars == <<pc, time_str, normalized, event_details, event_blocks, i, result,
          parsed_details, built, extractCalls, insertCalls, stdin, creds>>

-----------------------------------------------------------------------------
(* Python string primitives *)

Char(s, k) == SubSeq(s, k, k)

\* s[-2:]
Last2(s) == IF Len(s) <= 2 THEN s ELSE SubSeq(s, Len(s) - 1, Len(s))

\* s[:-2]
DropLast2(s) == IF Len(s) <= 2 THEN "" ELSE SubSeq(s, 1, Len(s) - 2)

\* c in s, for a one-character c
HasChar(s, c) == \E k \in 1..Len(s) : Char(s, k) = c

UpperChars == "ABCDEFGHIJKLMNOPQRSTUVWXYZ"
LowerChars == "abcdefghijklmnopqrstuvwxyz"

Digits == {"0", "1", "2", "3", "4", "5", "6", "7", "8", "9"}
AllDigits(s) == \A k \in 1..Len(s) : Char(s, k) \in Digits

\* the characters str.strip() removes (the ones a terminal line or a reply can hold)
Whitespace == {" ", "\t", "\n", "\r"}

RECURSIVE lstrip(_)
lstrip(s) == IF s # "" /\ Head(s) \in Whitespace THEN lstrip(Tail(s)) ELSE s

RECURSIVE rstrip(_)
rstrip(s) ==
    IF s # "" /\ Char(s, Len(s)) \in Whitespace
    THEN rstrip(SubSeq(s, 1, Len(s) - 1)) ELSE s

strip(s) == rstrip(lstrip(s))

\* s.startswith(t, k - 1): t occurs in s at position k
OccursAt(s, t, k) == k >= 1 /\ k + Len(t) - 1 <= Len(s) /\ SubSeq(s, k, k + Len(t) - 1) = t

RECURSIVE FindFrom(_, _, _)
\* s.find(t, k - 1) + 1: the first position from k on that t occurs at, 0 when none
FindFrom(s, t, k) ==
    IF k + Len(t) - 1 > Len(s) THEN 0
    ELSE IF OccursAt(s, t, k) THEN k ELSE FindFrom(s, t, k + 1)

\* s.find(t) + 1
Find(s, t) == FindFrom(s, t, 1)

RECURSIVE MapChars(_, _, _)
\* s with every character found in from replaced by the one at its place in to
MapChars(s, from, to) ==
    IF s = "" THEN ""
    ELSE LET c == Head(s)
             k == Find(from, c)
         IN  (IF k = 0 THEN c ELSE Char(to, k)) \o MapChars(Tail(s), from, to)

lower(s) == MapChars(s, UpperChars, LowerChars)
upper(s) == MapChars(s, LowerChars, UpperChars)

-----------------------------------------------------------------------------
(* normalize_time_format *)

Meridiems == {"am", "pm"}

\* line 68: time_str.lower().replace('.', ':')
LowerColon(s) == MapChars(lower(s), ".", ":")

\* lines 69-70
HourOnly(s) ==
    IF Len(s) = 4 /\ Last2(s) \in Meridiems
    THEN DropLast2(s) \o ":00" \o Last2(s) ELSE s

\* lines 71-72
FiveChars(s) ==
    IF Len(s) = 5 /\ Last2(s) \in Meridiems
    THEN DropLast2(s) \o "m" ELSE s

\* a variant of lines 73-74 without the test for a colon
SixCharsMutant(s) ==
    IF Len(s) = 6 /\ Last2(s) \in Meridiems
    THEN SubSeq(s, 1, 1) \o ":" \o SubSeq(s, 2, Len(s)) ELSE s

\* lines 73-74
SixChars(s) ==
    IF Len(s) = 6 /\ Last2(s) \in Meridiems /\ ~HasChar(s, ":")
    THEN SubSeq(s, 1, 1) \o ":" \o SubSeq(s, 2, Len(s)) ELSE s

\* lines 75-76
SevenChars(s) ==
    IF Len(s) = 7 /\ Last2(s) \in Meridiems /\ ~HasChar(s, ":")
    THEN SubSeq(s, 1, 2) \o ":" \o SubSeq(s, 3, Len(s)) ELSE s

normalize_time_format(s) == SevenChars(SixChars(FiveChars(HourOnly(LowerColon(s)))))

-----------------------------------------------------------------------------
(* Values of the variables an operation does not use *)

EmptyMap == [k \in {} |-> ""]
NoEvent == [status |-> "none"]

-----------------------------------------------------------------------------
(* The time normalizer on its own: one call on one token *)

MaxDigits == 4

DigitChars == {"0", "1", "3"}
SeparatorChars == {":", "."}
MeridiemSpellings == {"am", "pm", "PM"}

RECURSIVE DigitStrings(_)
\* the strings of exactly n characters of DigitChars
DigitStrings(n) ==
    IF n = 0 THEN {""}
    ELSE {d \o s : d \in DigitChars, s \in DigitStrings(n - 1)}

\* s with sep put after its first k characters
InsertAt(s, k, sep) == SubSeq(s, 1, k) \o sep \o SubSeq(s, k + 1, Len(s))

\* loosely formatted time tokens: digits, at most one separator, a meridiem
TimeTokens ==
    UNION {
        {ds \o mer : mer \in MeridiemSpellings}
        \cup {InsertAt(ds, k, sep) \o mer :
                k \in 0..Len(ds), sep \in SeparatorChars, mer \in MeridiemSpellings}
        : ds \in UNION {DigitStrings(n) : n \in 1..MaxDigits} }

NormIdle == /\ time_str = "" /\ normalized = ""
SplitIdle == /\ stdin = "" /\ event_details = "" /\ event_blocks = <<>>
RunIdle == /\ i = 0 /\ result = "" /\ parsed_details = EmptyMap /\ built = NoEvent
           /\ extractCalls = <<>> /\ insertCalls = <<>> /\ creds = "none"

InitNorm ==
    /\ pc = "norm_call"
    /\ time_str \in TimeTokens
    /\ normalized = ""
    /\ SplitIdle /\ RunIdle

Normalize ==
    /\ pc = "norm_call"
    /\ normalized' = normalize_time_format(time_str)
    /\ pc' = "norm_return"
    /\ UNCHANGED <<time_str, stdin, event_details, event_blocks, i, result,
                   parsed_details, built, extractCalls, insertCalls, creds>>

NextNorm == Normalize

SpecNorm == InitNorm /\ [][NextNorm]_vars

\* H:MM or HH:MM followed by lowercase am or pm
IsCanonicalTime(s) ==
    /\ Len(s) \in {6, 7}
    /\ Last2(s) \in Meridiems
    /\ Char(s, Len(s) - 4) = ":"
    /\ AllDigits(SubSeq(s, 1, Len(s) - 5))
    /\ AllDigits(SubSeq(s, Len(s) - 3, Len(s) - 2))

\* digits, with no separator, followed by am or pm in either case
IsDigitsMeridiem(s, lens) ==
    /\ Len(s) - 2 \in lens
    /\ lower(Last2(s)) \in Meridiems
    /\ AllDigits(DropLast2(s))

\* C7: the normalizer returns every canonical H:MM / HH:MM + am/pm string unchanged.
C7_CanonicalUnchanged ==
    (pc = "norm_return" /\ IsCanonicalTime(time_str)) => normalized = time_str

C7_Witness ==
    /\ pc = "norm_return" /\ IsCanonicalTime(time_str) /\ Len(time_str) = 6
    /\ normalized = time_str

\* C5: a token of 3 or 4 digits and a meridiem comes back with a colon before the
\* last two digits ("530pm" -> "5:30pm", "1230pm" -> "12:30pm").
C5_ColonBeforeMinutes ==
    (pc = "norm_return" /\ IsDigitsMeridiem(time_str, {3, 4}))
        => normalized = InsertAt(lower(time_str), Len(time_str) - 4, ":")

\* C6: a token of a 1- or 2-digit hour and a meridiem comes back as
\* hour + ":00" + meridiem ("1pm" -> "1:00pm").
C6_HourOnlyGetsMinutes ==
    (pc = "norm_return" /\ IsDigitsMeridiem(time_str, {1, 2}))
        => normalized = DropLast2(time_str) \o ":00" \o lower(Last2(time_str))

-----------------------------------------------------------------------------
(* main, lines 154-159: read the input and split it into blocks *)

\* the position after the digit run that starts at k (k itself when none starts there)
RECURSIVE DigitRunEnd(_, _)
DigitRunEnd(s, k) ==
    IF k <= Len(s) /\ Char(s, k) \in Digits THEN DigitRunEnd(s, k + 1) ELSE k

\* \d+\.\d+\.\d+ Booked tried at position k: the position after the match, 0 when
\* there is none.  Each \d+ is followed by a non-digit, so it takes the whole run.
MatchAnchorAt(s, k) ==
    LET a == DigitRunEnd(s, k)
        b == DigitRunEnd(s, a + 1)
        c == DigitRunEnd(s, b + 1)
    IN  IF /\ a > k /\ OccursAt(s, ".", a)
           /\ b > a + 1 /\ OccursAt(s, ".", b)
           /\ c > b + 1 /\ OccursAt(s, " Booked", c)
        THEN c + 7 ELSE 0

\* the leftmost position from which the pattern matches, 0 when it never does
SearchAnchor(s) ==
    IF \E k \in 1..Len(s) : MatchAnchorAt(s, k) # 0
    THEN CHOOSE k \in 1..Len(s) :
             MatchAnchorAt(s, k) # 0 /\ \A j \in 1..(k - 1) : MatchAnchorAt(s, j) = 0
    ELSE 0

RECURSIVE re_split(_)
\* line 157: re.split with one capturing group keeps each match between the pieces
re_split(s) ==
    LET k == SearchAnchor(s)
        e == MatchAnchorAt(s, k)
    IN  IF k = 0 THEN <<s>>
        ELSE <<SubSeq(s, 1, k - 1), SubSeq(s, k, e - 1)>>
                 \o re_split(SubSeq(s, e, Len(s)))

\* a variant of lines 158-159 with range(0, ...): the text before an anchor is joined to it
JoinPairsMutant(parts) ==
    IF Len(parts) > 1
    THEN [k \in 1..((Len(parts) - 1) \div 2) |-> parts[2 * k - 1] \o parts[2 * k]]
    ELSE parts

\* lines 158-159: an anchor is joined with the text that follows it
JoinPairs(parts) ==
    IF Len(parts) > 1
    THEN [k \in 1..((Len(parts) - 1) \div 2) |-> parts[2 * k] \o parts[2 * k + 1]]
    ELSE parts

SplitBlocks(details) == JoinPairs(re_split(details))

MaxPieces == 4

Pieces == {"6.4.24 Booked", "6.5.24", " Booked", ".", " ", "x"}

RECURSIVE Concatenations(_, _)
\* the strings made of at most n elements of ps
Concatenations(ps, n) ==
    IF n = 0 THEN {""}
    ELSE LET shorter == Concatenations(ps, n - 1)
         IN  shorter \cup {s \o piece : s \in shorter, piece \in ps}

InitSplit ==
    /\ pc = "input"
    /\ stdin \in Concatenations(Pieces, MaxPieces)
    /\ event_details = "" /\ event_blocks = <<>>
    /\ NormIdle /\ RunIdle

\* lines 154-159
ReadAndSplit ==
    /\ pc = "input"
    /\ event_details' = strip(stdin)
    /\ event_blocks' = SplitBlocks(strip(stdin))
    /\ i' = 1
    /\ pc' = "loop"
    /\ UNCHANGED <<time_str, normalized, stdin, result, parsed_details, built,
                   extractCalls, insertCalls, creds>>

NextSplit == ReadAndSplit

SpecSplit == InitSplit /\ [][NextSplit]_vars

\* s[p..e] has the shape <digits>.<digits>.<digits> Booked
IsAnchor(s, p, e) ==
    /\ p >= 1 /\ e <= Len(s) /\ e - 6 > p
    /\ SubSeq(s, e - 6, e) = " Booked"
    /\ \E a \in (p + 1)..(e - 10), b \in (p + 3)..(e - 8) :
          /\ a < b - 1
          /\ Char(s, a) = "." /\ Char(s, b) = "."
          /\ AllDigits(SubSeq(s, p, a - 1))
          /\ AllDigits(SubSeq(s, a + 1, b - 1))
          /\ AllDigits(SubSeq(s, b + 1, e - 7))

\* the places an anchor ends at: one per anchor of the input
AnchorEnds(s) ==
    {e \in 1..Len(s) : OccursAt(s, " Booked", e - 6) /\ \E p \in 1..e : IsAnchor(s, p, e)}

StartsWithAnchor(s) == \E e \in 1..Len(s) : IsAnchor(s, 1, e)

RECURSIVE ConcatAll(_)
ConcatAll(ss) == IF ss = <<>> THEN "" ELSE Head(ss) \o ConcatAll(Tail(ss))

\* C1: an input with K >= 1 anchors is split into exactly K blocks, each starting
\* with an anchor and holding no other, and the blocks in order make up the input
\* from its first anchor on.
C1_OneBlockPerAnchor ==
    (pc = "loop" /\ AnchorEnds(event_details) # {}) =>
        /\ Len(event_blocks) = Cardinality(AnchorEnds(event_details))
        /\ \A k \in 1..Len(event_blocks) :
              /\ StartsWithAnchor(event_blocks[k])
              /\ Cardinality(AnchorEnds(event_blocks[k])) = 1
        /\ \E p \in 1..Len(event_details) :
              ConcatAll(event_blocks) = SubSeq(event_details, p, Len(event_details))

C1_Witness ==
    /\ pc = "loop"
    /\ Cardinality(AnchorEnds(event_details)) = 3
    /\ Len(event_blocks) = 3
    /\ event_blocks[1] # event_blocks[2]

-----------------------------------------------------------------------------
(* datetime: strptime, timedelta addition, isoformat *)

DigitString == "0123456789"

RECURSIVE NumVal(_)
\* int(s) for a string of digits
NumVal(s) ==
    IF s = "" THEN 0
    ELSE 10 * NumVal(SubSeq(s, 1, Len(s) - 1)) + (Find(DigitString, Char(s, Len(s))) - 1)

IsLeap(y) == y % 4 = 0 /\ (y % 100 # 0 \/ y % 400 = 0)

DaysInMonth(y, m) ==
    IF m = 2 THEN (IF IsLeap(y) THEN 29 ELSE 28)
    ELSE IF m \in {4, 6, 9, 11} THEN 30 ELSE 31

RECURSIVE DaysBeforeMonth(_, _)
DaysBeforeMonth(y, m) ==
    IF m = 1 THEN 0 ELSE DaysBeforeMonth(y, m - 1) + DaysInMonth(y, m - 1)

DaysBeforeYear(y) ==
    (y - 1) * 365 + ((y - 1) \div 4) - ((y - 1) \div 100) + ((y - 1) \div 400)

\* date.toordinal()
toordinal(dt) == DaysBeforeYear(dt.year) + DaysBeforeMonth(dt.year, dt.month) + dt.day

\* date.fromordinal(n)
fromordinal(n) ==
    LET y == CHOOSE yy \in (n \div 366)..((n \div 365) + 1) :
                 DaysBeforeYear(yy) < n /\ n <= DaysBeforeYear(yy + 1)
        r == n - DaysBeforeYear(y)
        m == CHOOSE mm \in 1..12 :
                 DaysBeforeMonth(y, mm) < r /\ r <= DaysBeforeMonth(y, mm) + DaysInMonth(y, mm)
    IN  [year |-> y, month |-> m, day |-> r - DaysBeforeMonth(y, m)]

\* %m and %I: 1[0-2]|0[1-9]|[1-9]
IsOneToTwelve(s) == Len(s) \in {1, 2} /\ AllDigits(s) /\ NumVal(s) \in 1..12

\* %d: 3[01]|[12]\d|0[1-9]|[1-9]| [1-9]
IsDayField(s) ==
    \/ Len(s) \in {1, 2} /\ AllDigits(s) /\ NumVal(s) \in 1..31
    \/ Len(s) = 2 /\ Char(s, 1) = " " /\ AllDigits(Char(s, 2)) /\ NumVal(Char(s, 2)) # 0

\* %M: [0-5]\d|\d
IsMinuteField(s) == Len(s) \in {1, 2} /\ AllDigits(s) /\ NumVal(s) \in 0..59

\* datetime.strptime(s, "%m.%d.%y %I:%M%p") when minutes, "%m.%d.%y %I%p" when
\* not.  Every directive but the last is followed by a character it cannot hold, so
\* the fields are the stretches between those characters.  ok is FALSE for ValueError.
strptime(s, minutes) ==
    LET p1 == Find(s, ".")
        mStr == SubSeq(s, 1, p1 - 1)
        r1 == SubSeq(s, p1 + 1, Len(s))
        p2 == Find(r1, ".")
        dStr == SubSeq(r1, 1, p2 - 1)
        r2 == SubSeq(r1, p2 + 1, Len(r1))
        yStr == SubSeq(r2, 1, 2)
        r3 == SubSeq(r2, 3, Len(r2))
        clock == lstrip(r3)
        p == lower(Last2(clock))
        hm == DropLast2(clock)
        pcolon == Find(hm, ":")
        IStr == IF minutes THEN SubSeq(hm, 1, pcolon - 1) ELSE hm
        MStr == IF minutes THEN SubSeq(hm, pcolon + 1, Len(hm)) ELSE "0"
        year == IF NumVal(yStr) <= 68 THEN 2000 + NumVal(yStr) ELSE 1900 + NumVal(yStr)
        month == NumVal(mStr)
        day == NumVal(lstrip(dStr))
        hour == IF p = "am" THEN (IF NumVal(IStr) = 12 THEN 0 ELSE NumVal(IStr))
                ELSE (IF NumVal(IStr) = 12 THEN 12 ELSE NumVal(IStr) + 12)
        matched ==
            /\ p1 > 0 /\ IsOneToTwelve(mStr)
            /\ p2 > 0 /\ IsDayField(dStr)
            /\ Len(r2) >= 2 /\ AllDigits(yStr)
            /\ Len(clock) < Len(r3)
            /\ Len(clock) > 2 /\ p \in Meridiems
            /\ (minutes => pcolon > 0)
            /\ IsOneToTwelve(IStr) /\ IsMinuteField(MStr)
    IN  IF matched /\ day <= DaysInMonth(year, month)
        THEN [ok |-> TRUE, year |-> year, month |-> month, day |-> day,
              hour |-> hour, minute |-> NumVal(MStr), second |-> 0]
        ELSE [ok |-> FALSE]

\* a variant of the addition that keeps the date and wraps the hour
AddMinutesMutant(dt, n) ==
    LET secs == dt.hour * 3600 + dt.minute * 60 + dt.second + n * 60
    IN  [ok |-> TRUE, year |-> dt.year, month |-> dt.month, day |-> dt.day,
         hour |-> (secs % 86400) \div 3600, minute |-> (secs % 3600) \div 60,
         second |-> secs % 60]

\* event_datetime + datetime.timedelta(minutes=n): through the ordinal, as
\* datetime.__add__ does
AddMinutes(dt, n) ==
    LET secs == dt.hour * 3600 + dt.minute * 60 + dt.second + n * 60
        date == fromordinal(toordinal(dt) + (secs \div 86400))
    IN  [ok |-> TRUE, year |-> date.year, month |-> date.month, day |-> date.day,
         hour |-> (secs % 86400) \div 3600, minute |-> (secs % 3600) \div 60,
         second |-> secs % 60]

RECURSIVE Pad(_, _)
\* "%0<width>d" % n
Pad(n, width) ==
    IF width = 0 THEN ""
    ELSE Pad(n \div 10, width - 1) \o Char(DigitString, (n % 10) + 1)

\* datetime.isoformat() of a datetime with no microseconds and no tzinfo
isoformat(dt) ==
    Pad(dt.year, 4) \o "-" \o Pad(dt.month, 2) \o "-" \o Pad(dt.day, 2) \o "T"
        \o Pad(dt.hour, 2) \o ":" \o Pad(dt.minute, 2) \o ":" \o Pad(dt.second, 2)

-----------------------------------------------------------------------------
(* create_event, lines 79-128: from the parsed details to the event body *)

\* line 80
required_fields ==
    <<"Event Date", "Event Time", "Phone", "Name", "Address", "City", "State",
      "Zip Code", "Description">>

\* line 81
HasRequiredFields(details) ==
    \A k \in 1..Len(required_fields) : required_fields[k] \in DOMAIN details

\* lines 96-104: the minute format first, the hour-only format when it fails
ParseDateTime(event_datetime_str) ==
    LET first == strptime(event_datetime_str, TRUE)
    IN  IF first.ok THEN first ELSE strptime(event_datetime_str, FALSE)

\* a variant of line 111 with phone and name exchanged
SummaryMutant(phone, name) == "ros " \o name \o " " \o phone

\* line 111
Summary(phone, name) == "ros " \o phone \o " " \o name

\* line 112
Location(address, city, state, zip_code) ==
    address \o ", " \o city \o ", " \o state \o " " \o zip_code

TimeZone == "America/Los_Angeles"

\* details with "" for each required field it lacks
WithDefaults(details) ==
    [k \in DOMAIN details \cup {required_fields[j] : j \in 1..Len(required_fields)} |->
        IF k \in DOMAIN details THEN details[k] ELSE ""]

\* lines 79-128: status is "IncompleteFields" for the return at line 83,
\* "InvalidDateTime" for the one at line 104, and "built" with the body for insert
create_event(details) ==
    IF ~HasRequiredFields(details) THEN [status |-> "IncompleteFields"]
    ELSE
        LET event_time == normalize_time_format(details["Event Time"])
            event_datetime_str == details["Event Date"] \o " " \o upper(event_time)
            event_datetime == ParseDateTime(event_datetime_str)
        IN  IF ~event_datetime.ok THEN [status |-> "InvalidDateTime"]
            ELSE [status |-> "built",
                  event |-> [
                      summary |-> Summary(details["Phone"], details["Name"]),
                      location |-> Location(details["Address"], details["City"],
                                            details["State"], details["Zip Code"]),
                      description |-> details["Description"],
                      start |-> [dateTime |-> isoformat(event_datetime),
                                 timeZone |-> TimeZone],
                      end |-> [dateTime |-> isoformat(AddMinutes(event_datetime, 60)),
                               timeZone |-> TimeZone],
                      reminders |-> [useDefault |-> FALSE,
                                     overrides |-> <<[method |-> "popup", minutes |-> 10]>>]]]

-----------------------------------------------------------------------------
(* parse_event_details_with_openai, lines 51-64: the reply text to a mapping *)

RECURSIVE split_lines(_)
\* result.split('\n')
split_lines(s) ==
    LET k == Find(s, "\n")
    IN  IF k = 0 THEN <<s>>
        ELSE <<SubSeq(s, 1, k - 1)>> \o split_lines(SubSeq(s, k + 1, Len(s)))

\* line 55
HasSeparator(line) == Find(line, ": ") # 0

\* line 56: line.split(': ', 1)
KeyOf(line) == SubSeq(line, 1, Find(line, ": ") - 1)
ValueOf(line) == SubSeq(line, Find(line, ": ") + 2, Len(line))

\* a variant of line 57 that keeps the first value of a key (dict.setdefault)
PutMutant(details, key, value) ==
    IF key \in DOMAIN details THEN details
    ELSE [k \in DOMAIN details \cup {key} |-> IF k = key THEN value ELSE details[k]]

\* line 57: details[key] = value
Put(details, key, value) ==
    [k \in DOMAIN details \cup {key} |-> IF k = key THEN value ELSE details[k]]

RECURSIVE ParseLines(_, _)
\* lines 53-57
ParseLines(lines, details) ==
    IF lines = <<>> THEN details
    ELSE LET line == Head(lines)
         IN  ParseLines(Tail(lines),
                        IF HasSeparator(line)
                        THEN Put(details, KeyOf(line), ValueOf(line))
                        ELSE details)

\* lines 51-58, on the reply's content
ParseReply(content) == ParseLines(split_lines(strip(content)), EmptyMap)

\* lines 59-64: the two errors that are caught, each answered with {}
CaughtErrors == {"RateLimitError", "InvalidRequestError"}

\* openai.error classes with no except clause in lines 59-64
UncaughtErrors == {"APIConnectionError", "Timeout", "ServiceUnavailableError"}

-----------------------------------------------------------------------------
(* main, lines 136-168: the run *)

\* what token.json holds at startup: nothing, valid credentials, expired ones with
\* a refresh token, or credentials that are neither valid nor refreshable
TokenStates == {"absent", "valid", "expired", "invalid"}

\* lines 137-150.  An exception of creds.refresh or of the OAuth flow is raised
\* before the try statement of line 149 and ends the run.
Authenticate ==
    /\ pc = "auth"
    /\ \E token \in TokenStates, granted \in BOOLEAN :
          IF token = "valid" THEN creds' = "token_file" /\ pc' = "input"
          ELSE IF ~granted THEN creds' = "none" /\ pc' = "auth_failed"
          ELSE /\ creds' = (IF token = "expired" THEN "refreshed" ELSE "flow")
               /\ pc' = "input"
    /\ UNCHANGED <<time_str, normalized, stdin, event_details, event_blocks, i,
                   result, parsed_details, built, extractCalls, insertCalls>>

SetOutcome(calls, outcome) == [calls EXCEPT ![Len(calls)].outcome = outcome]

\* lines 162-163: the request for block i leaves
ExtractCall ==
    /\ pc = "loop" /\ i <= Len(event_blocks)
    /\ extractCalls' = Append(extractCalls, [block |-> i, outcome |-> "pending"])
    /\ pc' = "extracting"
    /\ UNCHANGED <<time_str, normalized, stdin, event_details, event_blocks, i,
                   result, parsed_details, built, insertCalls, creds>>

\* lines 164-165 after the extractor returned details
AfterExtract(details) ==
    IF details # EmptyMap THEN pc' = "create_event" /\ i' = i
    ELSE pc' = "loop" /\ i' = i + 1

\* lines 51-58 and 164: the collaborator answers with some text
ExtractReturn(content) ==
    /\ pc = "extracting"
    /\ result' = strip(content)
    /\ LET details == ParseReply(content)
       IN  parsed_details' = details /\ AfterExtract(details)
    /\ extractCalls' = SetOutcome(extractCalls, "reply")
    /\ UNCHANGED <<time_str, normalized, stdin, event_details, event_blocks, built,
                   insertCalls, creds>>

\* lines 59-64 and 164: the call raises an error that is caught
ExtractFails ==
    /\ pc = "extracting"
    /\ \E err \in CaughtErrors : extractCalls' = SetOutcome(extractCalls, err)
    /\ parsed_details' = EmptyMap
    /\ AfterExtract(EmptyMap)
    /\ UNCHANGED <<time_str, normalized, stdin, event_details, event_blocks, result,
                   built, insertCalls, creds>>

\* the call raises an error that lines 59-64 do not catch; line 167 catches
\* HttpError only, so it leaves main
ExtractRaises ==
    /\ pc = "extracting"
    /\ \E err \in UncaughtErrors : extractCalls' = SetOutcome(extractCalls, err)
    /\ pc' = "crashed"
    /\ UNCHANGED <<time_str, normalized, stdin, event_details, event_blocks, i,
                   result, parsed_details, built, insertCalls, creds>>

\* a variant of the call that fills the fields the details lack with ""
BuildEventMutant(details) == create_event(WithDefaults(details))

\* line 165: create_event(service, parsed_details)
BuildEvent(details) == create_event(details)

\* line 165, lines 79-131: build the event; the insert request leaves when one is built
CreateEvent ==
    /\ pc = "create_event"
    /\ LET r == BuildEvent(parsed_details)
       IN  /\ built' = r
           /\ IF r.status = "built"
              THEN /\ insertCalls' = Append(insertCalls,
                                            [block |-> i, outcome |-> "pending",
                                             calendarId |-> "primary", body |-> r.event])
                   /\ pc' = "inserting" /\ i' = i
              ELSE /\ insertCalls' = insertCalls
                   /\ pc' = "loop" /\ i' = i + 1
    /\ UNCHANGED <<time_str, normalized, stdin, event_details, event_blocks, result,
                   parsed_details, extractCalls, creds>>

\* a variant of lines 131-134 that builds and inserts the event again after HttpError
InsertReturnMutant ==
    /\ pc = "inserting"
    /\ \E answer \in {"created", "HttpError"} :
          /\ insertCalls' = SetOutcome(insertCalls, answer)
          /\ IF answer = "HttpError" THEN pc' = "create_event" /\ i' = i
             ELSE pc' = "loop" /\ i' = i + 1
    /\ UNCHANGED <<time_str, normalized, stdin, event_details, event_blocks, result,
                   parsed_details, built, extractCalls, creds>>

\* lines 131-134: the gateway answers, or raises HttpError, which is caught
InsertReturn ==
    /\ pc = "inserting"
    /\ \E answer \in {"created", "HttpError"} :
          insertCalls' = SetOutcome(insertCalls, answer)
    /\ pc' = "loop" /\ i' = i + 1
    /\ UNCHANGED <<time_str, normalized, stdin, event_details, event_blocks, result,
                   parsed_details, built, extractCalls, creds>>

\* line 162: no block is left
Finish ==
    /\ pc = "loop" /\ i > Len(event_blocks)
    /\ pc' = "done"
    /\ UNCHANGED <<time_str, normalized, stdin, event_details, event_blocks, i,
                   result, parsed_details, built, extractCalls, insertCalls, creds>>

-----------------------------------------------------------------------------
(* What the collaborators can hand the program *)

\* a reply in the format the prompt of lines 27-47 asks for: one "Key: value" line
\* for each of keys
RECURSIVE FormatReply(_, _)
FormatReply(details, keys) ==
    IF keys = <<>> THEN ""
    ELSE Head(keys) \o ": " \o details[Head(keys)]
             \o (IF Len(keys) > 1 THEN "\n" ELSE "") \o FormatReply(details, Tail(keys))

\* the sequence without its k-th element
Without(seq, k) == SubSeq(seq, 1, k - 1) \o SubSeq(seq, k + 1, Len(seq))

Details(date, time, phone, name, address, city, state, zip, description) ==
    [k \in {required_fields[j] : j \in 1..Len(required_fields)} |->
        CASE k = "Event Date" -> date
          [] k = "Event Time" -> time
          [] k = "Phone" -> phone
          [] k = "Name" -> name
          [] k = "Address" -> address
          [] k = "City" -> city
          [] k = "State" -> state
          [] k = "Zip Code" -> zip
          [] OTHER -> description]

\* the worked example of the prompt, lines 39-47
ExampleDetails(date, time) ==
    Details(date, time, "15104144644", "John Hornung", "2835 Buena Vista Way",
            "Berkeley", "CA", "94708", "Roof replacement")

MaxReplyLines == 2
MaxInputPieces == 2

ReplyLines == {"Name: A", "Name: B: C", "ok:"}

RECURSIVE LineTexts(_)
\* the texts of 1 to n lines of ReplyLines
LineTexts(n) ==
    IF n = 1 THEN ReplyLines
    ELSE LineTexts(n - 1) \cup {t \o "\n" \o l : t \in LineTexts(n - 1), l \in ReplyLines}

\* replies the extractor can get in a run: short texts of any shape, and replies in
\* the asked format, complete or with a line missing
Replies ==
    LineTexts(MaxReplyLines)
    \cup {FormatReply(ExampleDetails("6.4.24", t), required_fields) :
            t \in {"1pm", "530pm"}}
    \cup {FormatReply(ExampleDetails("6.4.24", "1pm"), Without(required_fields, k)) :
            k \in {3}}

InputPieces == {"6.4.24 Booked 1pm", "x "}

Init ==
    /\ pc = "auth"
    /\ stdin \in Concatenations(InputPieces, MaxInputPieces)
    /\ event_details = "" /\ event_blocks = <<>>
    /\ NormIdle /\ RunIdle

Next ==
    \/ Authenticate
    \/ ReadAndSplit
    \/ ExtractCall
    \/ \E content \in Replies : ExtractReturn(content)
    \/ ExtractFails
    \/ ExtractRaises
    \/ CreateEvent
    \/ InsertReturn
    \/ Finish

Spec == Init /\ [][Next]_vars

-----------------------------------------------------------------------------
(* The event builder on its own: from one reply in the asked format to the insert *)

BuildMonths == {"1", "2", "6", "12", "13"}
BuildDays == {"1", "4", "28", "29", "30", "31", "32"}
BuildYears == {"24", "23", "99", "00", "68", "69", "2024"}
BuildTimes ==
    {"1pm", "11pm", "12am", "12pm", "11:30pm", "11:59PM", "12:30am", "12:00am",
     "530pm", "1230pm", "5.30pm", "11.30pm", "13pm", "1:60pm", "noon"}

BuildDetails ==
    {ExampleDetails(m \o "." \o d \o "." \o y, t) :
        m \in BuildMonths, d \in BuildDays, y \in BuildYears, t \in BuildTimes}
    \cup {Details("12.31.24", t, "1", "A B", "5 C St", "D", "EF", "0", "G: H") :
            t \in BuildTimes}

BuildReplies ==
    {FormatReply(d, required_fields) : d \in BuildDetails}
    \cup {FormatReply(ExampleDetails("6.4.24", "1pm"), Without(required_fields, k)) :
            k \in 1..Len(required_fields)}

\* main has read an input of one block and the extractor has returned its reply
InitBuild ==
    /\ pc = "create_event"
    /\ creds = "token_file"
    /\ stdin = "" /\ event_details = "" /\ event_blocks = <<"">>
    /\ i = 1
    /\ extractCalls = <<[block |-> 1, outcome |-> "reply"]>>
    /\ result \in {strip(r) : r \in BuildReplies}
    /\ parsed_details = ParseReply(result)
    /\ built = NoEvent /\ insertCalls = <<>>
    /\ NormIdle

NextBuild == CreateEvent \/ InsertReturn \/ Finish

SpecBuild == InitBuild /\ [][NextBuild]_vars

-----------------------------------------------------------------------------
(* Properties of the event builder *)

\* the nine keys a FieldMap must hold
NineKeys ==
    {"Event Date", "Event Time", "Phone", "Name", "Address", "City", "State",
     "Zip Code", "Description"}

MissingRequired(details) == \E k \in NineKeys : k \notin DOMAIN details

\* s has the shape YYYY-MM-DDTHH:MM:SS
IsIso(s) ==
    /\ Len(s) = 19
    /\ Char(s, 5) = "-" /\ Char(s, 8) = "-" /\ Char(s, 11) = "T"
    /\ Char(s, 14) = ":" /\ Char(s, 17) = ":"
    /\ \A k \in (1..19) \ {5, 8, 11, 14, 17} : Char(s, k) \in Digits

\* "YYYY-MM-DDTHH:MM:SS" read back
ParseIso(s) ==
    [year |-> NumVal(SubSeq(s, 1, 4)), month |-> NumVal(SubSeq(s, 6, 7)),
     day |-> NumVal(SubSeq(s, 9, 10)), hour |-> NumVal(SubSeq(s, 12, 13)),
     minute |-> NumVal(SubSeq(s, 15, 16)), second |-> NumVal(SubSeq(s, 18, 19))]

\* the wall-clock time one hour later, by carrying into the day, month and year
HourLater(t) ==
    IF t.hour < 23 THEN [t EXCEPT !.hour = t.hour + 1]
    ELSE IF t.day < DaysInMonth(t.year, t.month)
         THEN [t EXCEPT !.hour = 0, !.day = t.day + 1]
    ELSE IF t.month < 12
         THEN [t EXCEPT !.hour = 0, !.day = 1, !.month = t.month + 1]
    ELSE [t EXCEPT !.hour = 0, !.day = 1, !.month = 1, !.year = t.year + 1]

\* C4: every event handed to the gateway ends exactly 60 minutes after it starts,
\* also when it starts in the last hour of a day, and start and end carry the same
\* fixed time zone.
C4_EndIsStartPlus60 ==
    \A k \in 1..Len(insertCalls) :
        LET e == insertCalls[k].body
        IN  /\ IsIso(e.start.dateTime) /\ IsIso(e.end.dateTime)
            /\ ParseIso(e.end.dateTime) = HourLater(ParseIso(e.start.dateTime))
            /\ e.start.timeZone = "America/Los_Angeles"
            /\ e.end.timeZone = e.start.timeZone

C4_Witness ==
    /\ Len(insertCalls) = 1
    /\ insertCalls[1].body.start.dateTime = "1999-12-31T23:30:00"
    /\ insertCalls[1].body.end.dateTime = "2000-01-01T00:30:00"

IsScenario(details) ==
    /\ ~MissingRequired(details)
    /\ details["Event Date"] = "6.4.24" /\ details["Event Time"] = "1pm"
    /\ details["Phone"] = "15104144644" /\ details["Name"] = "John Hornung"
    /\ details["Address"] = "2835 Buena Vista Way" /\ details["City"] = "Berkeley"
    /\ details["State"] = "CA" /\ details["Zip Code"] = "94708"

\* C8: every event handed to the gateway has title "ros" + " " + phone + " " + name
\* and location address + ", " + city + ", " + state + " " + zip; for the FieldMap
\* of the scenario exactly one event is handed over, with the scenario's title and
\* location, start 2024-06-04T13:00:00 and end 2024-06-04T14:00:00.
C8_EventOfDetails ==
    pc # "create_event" =>
        /\ \A k \in 1..Len(insertCalls) :
              LET e == insertCalls[k].body
              IN  /\ e.summary = "ros" \o " " \o parsed_details["Phone"] \o " "
                                       \o parsed_details["Name"]
                  /\ e.location = parsed_details["Address"] \o ", "
                                      \o parsed_details["City"] \o ", "
                                      \o parsed_details["State"] \o " "
                                      \o parsed_details["Zip Code"]
        /\ IsScenario(parsed_details) =>
              /\ Len(insertCalls) = 1
              /\ insertCalls[1].calendarId = "primary"
              /\ insertCalls[1].body.summary = "ros 15104144644 John Hornung"
              /\ insertCalls[1].body.location = "2835 Buena Vista Way, Berkeley, CA 94708"
              /\ insertCalls[1].body.start.dateTime = "2024-06-04T13:00:00"
              /\ insertCalls[1].body.end.dateTime = "2024-06-04T14:00:00"

C8_Witness ==
    /\ pc = "done" /\ IsScenario(parsed_details)
    /\ Len(insertCalls) = 1 /\ insertCalls[1].outcome = "created"
    /\ insertCalls[1].body.summary = "ros 15104144644 John Hornung"

-----------------------------------------------------------------------------
(* Properties of the run *)

Terminated == pc \in {"done", "crashed", "auth_failed"}

ExtractedBlocks == {extractCalls[k].block : k \in 1..Len(extractCalls)}
InsertedBlocks == {insertCalls[k].block : k \in 1..Len(insertCalls)}

\* C2: once the credentials are acquired, whatever fails on a block, the
\* extractor is called on every block and the run completes normally.
C2_FailuresIsolated ==
    (Terminated /\ creds # "none") =>
        /\ pc = "done"
        /\ ExtractedBlocks = 1..Len(event_blocks)

\* C3: create_event on a FieldMap that lacks one of the nine keys returns with
\* IncompleteFields without an insert call, and the loop moves on to the next block.
C3_IncompleteIsSkipped ==
    [][(pc = "create_event" /\ MissingRequired(parsed_details)) =>
          /\ built'.status = "IncompleteFields"
          /\ insertCalls' = insertCalls
          /\ pc' = "loop" /\ i' = i + 1]_vars

\* a block with an incomplete FieldMap was skipped and the next block is at the extractor
C3_Witness ==
    /\ pc = "extracting" /\ i = 2
    /\ built.status = "IncompleteFields"
    /\ "Phone" \notin DOMAIN parsed_details /\ "Name" \in DOMAIN parsed_details
    /\ insertCalls = <<>>

\* the line holds ": "
HoldsSeparator(line) == \E k \in 1..Len(line) : OccursAt(line, ": ", k)

\* where the first ": " of the line is
FirstSeparator(line) ==
    CHOOSE k \in 1..Len(line) :
        OccursAt(line, ": ", k) /\ \A j \in 1..(k - 1) : ~OccursAt(line, ": ", j)

BeforeSeparator(line) == SubSeq(line, 1, FirstSeparator(line) - 1)
AfterSeparator(line) == SubSeq(line, FirstSeparator(line) + 2, Len(line))

Replied == extractCalls # <<>> /\ extractCalls[Len(extractCalls)].outcome = "reply"

\* a caught failure of the extractor call leaves the empty mapping and no insert
\* is made for that block
CaughtFailureSkipsBlock ==
    \A k \in 1..Len(extractCalls) :
        extractCalls[k].outcome \in {"RateLimitError", "InvalidRequestError"} =>
            /\ extractCalls[k].block \notin InsertedBlocks
            /\ k = Len(extractCalls) => parsed_details = EmptyMap

\* C9 as stated: the mapping has an entry for each line of the reply that holds
\* ": ", its key the text before the first ": " and its value the text after it,
\* and nothing else; a caught failure gives the empty mapping and no insert.
C9_EntryPerLine ==
    /\ Replied =>
          LET lines == split_lines(result)
              held == {n \in 1..Len(lines) : HoldsSeparator(lines[n])}
              key == [n \in held |-> BeforeSeparator(lines[n])]
          IN  /\ DOMAIN parsed_details = {key[n] : n \in held}
              /\ \A n \in held : parsed_details[key[n]] = AfterSeparator(lines[n])
    /\ CaughtFailureSkipsBlock

\* C9 as amended: the lines are those of the reply with the white space at its ends
\* removed, the mapping has one entry for each key of a line that holds ": ", and
\* its value is the text after the first ": " of the last line with that key; a
\* caught failure gives the empty mapping and no insert.
C9_LastLineWins ==
    /\ Replied =>
          LET lines == split_lines(result)
              held == {n \in 1..Len(lines) : HoldsSeparator(lines[n])}
              key == [n \in held |-> BeforeSeparator(lines[n])]
          IN  /\ DOMAIN parsed_details = {key[n] : n \in held}
              /\ \A n \in held :
                    (\A later \in held : later > n => key[later] # key[n])
                        => parsed_details[key[n]] = AfterSeparator(lines[n])
    /\ CaughtFailureSkipsBlock

C9_Witness ==
    /\ Len(extractCalls) = 2
    /\ extractCalls[1].outcome = "RateLimitError"
    /\ extractCalls[2].outcome = "reply"
    /\ result = "Name: A\nName: B: C"
    /\ parsed_details = [k \in {"Name"} |-> "B: C"]
    /\ insertCalls = <<>>

\* C10: each block gets at most one extractor call and at most one insert call, in
\* the order of the blocks; the extractor call of a block starts only after every
\* earlier call has returned or failed; no block is tried again.
C10_SequentialNoRetry ==
    /\ \A k \in 1..Len(extractCalls) : extractCalls[k].block = k
    /\ \A j, k \in 1..Len(insertCalls) : j < k => insertCalls[j].block < insertCalls[k].block
    /\ InsertedBlocks \subseteq ExtractedBlocks
    /\ \A k \in 1..Len(extractCalls) :
          extractCalls[k].outcome = "pending" => (k = Len(extractCalls) /\ pc = "extracting")
    /\ \A k \in 1..Len(insertCalls) :
          insertCalls[k].outcome = "pending" => (k = Len(insertCalls) /\ pc = "inserting")
    /\ pc = "extracting" =>
          \A k \in 1..Len(insertCalls) :
              insertCalls[k].block < extractCalls[Len(extractCalls)].block

\* the first block's insert failed, was not tried again, and the second block's succeeded
C10_Witness ==
    /\ pc = "done"
    /\ Len(extractCalls) = 2 /\ Len(insertCalls) = 2
    /\ insertCalls[1].outcome = "HttpError" /\ insertCalls[1].block = 1
    /\ insertCalls[2].outcome = "created" /\ insertCalls[2].block = 2

====
